---- MODULE Spec2Model ----
(***************************************************************************)
(* Model of mt::task (task.hpp): tasks with dependencies whose submission  *)
(* to a thread pool is postponed until all dependencies are resolved.      *)
(*                                                                         *)
(* Threads are the submitting (main) threads and the workers of the        *)
(* thread pool.  Every std::mutex is modelled by its owner; a step that    *)
(* locks a mutex is enabled only while the mutex is free.  A critical      *)
(* section that touches nothing but the object its mutex protects is one   *)
(* step (task_group's counter, add_dependent, set_submit_task); the        *)
(* sections that call into other objects while holding the lock            *)
(* (add_dependency, finish_preparation, remove_dependency, enqueue,        *)
(* finish) are split at every such call.  The thread pool is not part of   *)
(* the sources: it accepts jobs and each idle worker takes any queued job. *)
(***************************************************************************)
EXTENDS Integers, Sequences, FiniteSets, TLC

(* ----------------------------- bounds ---------------------------------- *)
MaxTasks == 2      \* tasks of a generated dependency graph
MaxDeps == 1       \* longest prerequisite list of a generated graph
PoolSize == 2      \* mt::thread_pool tp(2)
NumMains == 2      \* submitting threads that are not pool workers
MaxId == 9         \* task ids available to the hand-written programs

Tasks == 1..MaxId
Workers == 1..PoolSize
Mains == (PoolSize + 1)..(PoolSize + NumMains)
Threads == Workers \cup Mains
M1 == PoolSize + 1
M2 == PoolSize + 2
NoThread == 0
NoTask == 0

VARIABLES
  prog,               \* the program: prerequisite lists, callables, main threads
  state,              \* task_handle_rec::state ("NONE" before construction)
  dependencies_left,  \* task_handle_rec::dependencies_left
  dependents,         \* task_handle_rec::dependents
  submit_task,        \* task_handle_rec::submit_task is set
  mutex,              \* task_handle_rec::mutex, by owner
  result,             \* the shared_future of task_rec
  rmutex,             \* task_rec::mutex, by owner
  queue,              \* jobs handed to the thread pool and not yet taken
  active,             \* task_group::active
  run,                \* the task whose job a worker executes
  ip,                 \* position of a thread in its code
  pc,                 \* position of a thread within the current call
  k,                  \* loop index of the current call
  added,              \* return value of the last add_dependent
  acc,                \* sum of the values the running callable has read
  cstat               \* progress of a task's user callable

vars == <<prog, state, dependencies_left, dependents, submit_task, mutex,
          result, rmutex, queue, active, run, ip, pc, k, added, acc, cstat>>

handleVars == <<state, dependencies_left, dependents, submit_task, mutex>>

(* ----------------------------- programs -------------------------------- *)
Op(name, t) == [op |-> name, t |-> t]
RetValue == [kind |-> "value", t |-> NoTask]
RetThrow == [kind |-> "throw", t |-> NoTask]
RetTask(c) == [kind |-> "task", t |-> c]

NoResult == [kind |-> "none", v |-> 0, t |-> NoTask]

Deps(t) == prog.deps[t]
Body(t) == prog.body[t]
Code(x) == IF x \in Mains THEN prog.main[x] ELSE Body(run[x])
AtCode(x) == pc[x] = "code" /\ ip[x] <= Len(Code(x))
CurOp(x) == Code(x)[ip[x]]
Cur(x) == CurOp(x).t


(* ------------------------- small helpers -------------------------------- *)
Set(f, x, v) == [f EXCEPT ![x] = v]
Goto(x, label) == pc' = [pc EXCEPT ![x] = label]
NextOp(x) == /\ ip' = [ip EXCEPT ![x] = ip[x] + 1]
             /\ pc' = [pc EXCEPT ![x] = "code"]
Remove(q, i) == [j \in 1..(Len(q) - 1) |-> IF j < i THEN q[j] ELSE q[j + 1]]

\* submit() has returned the task pointer, so other code can name the task
Visible(t) == state[t] \in {"WAITING", "SUBMITTED", "FINISHED"}

\* the handle a submission registers with for prerequisite p: p->get_handle()
get_handle(p) == p

\* mutant: task_group::submit without its ++active
AfterDeps_NoIncrement == "set_submit_task"

\* pc after the prerequisite loop of a submission
AfterDeps == IF prog.grp THEN "increment" ELSE "set_submit_task"

\* pc of a worker after finish()
AfterFinish == IF prog.grp THEN "decrement" ELSE "idle"

(* ------------------- submit / task_group::submit ------------------------ *)
\* make_shared<task_handle_rec>() and make_shared<task_rec<T>>()
SubmitBegin(x) ==
  /\ AtCode(x) /\ CurOp(x).op = "submit"
  /\ state[Cur(x)] = "NONE"
  /\ \A i \in 1..Len(Deps(Cur(x))) : Visible(Deps(Cur(x))[i])
  /\ state' = Set(state, Cur(x), "PREPARING")
  /\ k' = Set(k, x, 1)
  /\ Goto(x, IF Deps(Cur(x)) = <<>> THEN AfterDeps ELSE "add_dependency")
  /\ UNCHANGED <<prog, dependencies_left, dependents, submit_task, mutex,
                 result, rmutex, queue, active, run, ip, added, acc, cstat>>

\* add_dependency: lock_guard on the new handle
AddDependencyLock(x) ==
  /\ pc[x] = "add_dependency"
  /\ mutex[Cur(x)] = NoThread
  /\ mutex' = Set(mutex, Cur(x), x)
  /\ Goto(x, "add_dependent")
  /\ UNCHANGED <<prog, state, dependencies_left, dependents, submit_task,
                 result, rmutex, queue, active, run, ip, k, added, acc, cstat>>

\* mutant: add_dependent enlists the dependent in a finished handle too
AddDependentAccepts_Always(p) == TRUE

\* add_dependent returns true unless the handle is already finished
AddDependentAccepts(p) == state[p] # "FINISHED"

\* add_dependent on the prerequisite, called with the new handle's mutex held
AddDependent(x) ==
  /\ pc[x] = "add_dependent"
  /\ LET p == get_handle(Deps(Cur(x))[k[x]]) IN
       /\ mutex[p] = NoThread
       /\ added' = Set(added, x, AddDependentAccepts(p))
       /\ dependents' = IF AddDependentAccepts(p)
                        THEN Set(dependents, p, Append(dependents[p], Cur(x)))
                        ELSE dependents
  /\ Goto(x, "add_dependency_end")
  /\ UNCHANGED <<prog, state, dependencies_left, submit_task, mutex,
                 result, rmutex, queue, active, run, ip, k, acc, cstat>>

\* mutant: add_dependency without its ++dependencies_left
CountDependency_Dropped(left, ok) == left

\* mutant: add_dependency ignores what add_dependent returns
CountDependency_Unchecked(left, ok) == left + 1

\* dependencies_left after add_dependent has returned
CountDependency(left, ok) == IF ok THEN left + 1 ELSE left

\* rest of add_dependency: count the dependency, release the mutex
AddDependencyEnd(x) ==
  /\ pc[x] = "add_dependency_end"
  /\ dependencies_left' = Set(dependencies_left, Cur(x),
                              CountDependency(dependencies_left[Cur(x)], added[x]))
  /\ mutex' = Set(mutex, Cur(x), NoThread)
  /\ k' = Set(k, x, k[x] + 1)
  /\ Goto(x, IF k[x] < Len(Deps(Cur(x))) THEN "add_dependency" ELSE AfterDeps)
  /\ UNCHANGED <<prog, state, dependents, submit_task,
                 result, rmutex, queue, active, run, ip, added, acc, cstat>>

\* mutant: submissions made by a callable of the group are not counted
GroupIncrement_OutsideOnly(x) ==
  /\ pc[x] = "increment"
  /\ active' = IF x \in Mains THEN active + 1 ELSE active
  /\ Goto(x, "set_submit_task")
  /\ UNCHANGED <<prog, handleVars, result, rmutex, queue, run, ip, k, added,
                 acc, cstat>>

\* task_group::submit: { lock_guard; ++active; }
GroupIncrement(x) ==
  /\ pc[x] = "increment"
  /\ active' = active + 1
  /\ Goto(x, "set_submit_task")
  /\ UNCHANGED <<prog, handleVars, result, rmutex, queue, run, ip, k, added,
                 acc, cstat>>

\* set_submit_task
SetSubmitTask(x) ==
  /\ pc[x] = "set_submit_task"
  /\ mutex[Cur(x)] = NoThread
  /\ submit_task' = Set(submit_task, Cur(x), TRUE)
  /\ Goto(x, "finish_preparation")
  /\ UNCHANGED <<prog, state, dependencies_left, dependents, mutex,
                 result, rmutex, queue, active, run, ip, k, added, acc, cstat>>

\* finish_preparation: lock_guard
FinishPreparationLock(x) ==
  /\ pc[x] = "finish_preparation"
  /\ mutex[Cur(x)] = NoThread
  /\ mutex' = Set(mutex, Cur(x), x)
  /\ Goto(x, "finish_preparation_body")
  /\ UNCHANGED <<prog, state, dependencies_left, dependents, submit_task,
                 result, rmutex, queue, active, run, ip, k, added, acc, cstat>>

\* mutant: the test of finish_preparation inverted
NoDependenciesLeft_Inverted(h) == dependencies_left[h] # 0

\* mutant: finish_preparation enqueues whatever the count is
NoDependenciesLeft_Always(h) == TRUE

\* the test of finish_preparation
NoDependenciesLeft(h) == dependencies_left[h] = 0

\* submit_task(): the job goes to the thread pool
PoolSubmit(q, h) == Append(q, h)

\* finish_preparation: enqueue() or WAITING
FinishPreparation(x) ==
  /\ pc[x] = "finish_preparation_body"
  /\ IF NoDependenciesLeft(Cur(x))
     THEN /\ queue' = PoolSubmit(queue, Cur(x))
          /\ Goto(x, "enqueue")
          /\ UNCHANGED <<state, mutex, ip>>
     ELSE /\ state' = Set(state, Cur(x), "WAITING")
          /\ mutex' = Set(mutex, Cur(x), NoThread)
          /\ NextOp(x)
          /\ UNCHANGED queue
  /\ UNCHANGED <<prog, dependencies_left, dependents, submit_task,
                 result, rmutex, active, run, k, added, acc, cstat>>

\* the handle an enqueue() in progress works on
EnqueueHandle(x) == IF pc[x] = "enqueue" THEN Cur(x) ELSE dependents[run[x]][k[x]]

\* enqueue() after submit_task(): submit_task = nullptr; state = SUBMITTED;
\* then the caller's lock_guard ends
EnqueueEnd(x) ==
  /\ pc[x] \in {"enqueue", "enqueue_dependent"}
  /\ submit_task' = Set(submit_task, EnqueueHandle(x), FALSE)
  /\ state' = Set(state, EnqueueHandle(x), "SUBMITTED")
  /\ mutex' = Set(mutex, EnqueueHandle(x), NoThread)
  /\ IF pc[x] = "enqueue"
     THEN NextOp(x) /\ UNCHANGED k
     ELSE Goto(x, "notify") /\ k' = Set(k, x, k[x] + 1) /\ UNCHANGED ip
  /\ UNCHANGED <<prog, dependencies_left, dependents,
                 result, rmutex, queue, active, run, added, acc, cstat>>

(* --------------------------- pool workers ------------------------------- *)
\* the queued jobs an idle worker may take next: thread_pool.hpp is not part
\* of the sources, so the pool may hand out the jobs in any order
PoolChoice(q) == 1..Len(q)

\* a worker of the pool takes a queued job: the lambda of tp.submit
PoolTake(x) ==
  /\ x \in Workers /\ x <= prog.nw
  /\ pc[x] = "idle"
  /\ \E i \in PoolChoice(queue) :
       /\ run' = Set(run, x, queue[i])
       /\ cstat' = Set(cstat, queue[i], "running")
       /\ queue' = Remove(queue, i)
  /\ ip' = Set(ip, x, 1)
  /\ acc' = Set(acc, x, 0)
  /\ Goto(x, "code")
  /\ UNCHANGED <<prog, handleVars, result, rmutex, active, k, added>>

\* what the packaged_task stores in the shared state when the callable of t,
\* having read values that sum up to a, returns or throws
Published(t, a) ==
  CASE prog.ret[t].kind = "value" -> [kind |-> "value", v |-> t + a, t |-> NoTask]
    [] prog.ret[t].kind = "task"  -> [kind |-> "task", v |-> 0, t |-> prog.ret[t].t]
    [] OTHER                      -> [kind |-> "exc", v |-> 0, t |-> NoTask]

Rethrown == [kind |-> "exc", v |-> 0, t |-> NoTask]

\* mutant: an exception of the callable leaves the job, finish() is skipped
AfterCallable_Propagates(r) == IF r.kind = "exc" THEN "idle" ELSE "finish"

\* the job after (*f)(): the packaged_task has caught whatever the callable
\* threw, so th->finish() follows in either case
AfterCallable(r) == "finish"

\* (*f)(): the callable ends and the packaged_task makes the future ready
CallableReturn(x) ==
  /\ x \in Workers /\ pc[x] = "code" /\ ip[x] > Len(Code(x))
  /\ result' = Set(result, run[x], Published(run[x], acc[x]))
  /\ cstat' = Set(cstat, run[x], "returned")
  /\ Goto(x, AfterCallable(Published(run[x], acc[x])))
  /\ UNCHANGED <<prog, handleVars, rmutex, queue, active, run, ip, k, added, acc>>

\* mutant: finish without its lock_guard
FinishLock_NoLock(x) ==
  /\ pc[x] = "finish"
  /\ k' = Set(k, x, 1)
  /\ Goto(x, "notify")
  /\ UNCHANGED <<prog, state, dependencies_left, dependents, submit_task, mutex,
                 result, rmutex, queue, active, run, ip, added, acc, cstat>>

\* finish: lock_guard
FinishLock(x) ==
  /\ pc[x] = "finish"
  /\ mutex[run[x]] = NoThread
  /\ mutex' = Set(mutex, run[x], x)
  /\ k' = Set(k, x, 1)
  /\ Goto(x, "notify")
  /\ UNCHANGED <<prog, state, dependencies_left, dependents, submit_task,
                 result, rmutex, queue, active, run, ip, added, acc, cstat>>

\* finish: the next dependent's remove_dependency locks that dependent,
\* while the mutex of the finishing handle is held
FinishNotify(x) ==
  /\ pc[x] = "notify" /\ k[x] <= Len(dependents[run[x]])
  /\ mutex[dependents[run[x]][k[x]]] = NoThread
  /\ mutex' = Set(mutex, dependents[run[x]][k[x]], x)
  /\ Goto(x, "remove_dependency")
  /\ UNCHANGED <<prog, state, dependencies_left, dependents, submit_task,
                 result, rmutex, queue, active, run, ip, k, added, acc, cstat>>

\* mutant: remove_dependency enqueues a waiting handle at every notification
EnqueuesDependent_AnyCount(d, left) == state[d] # "PREPARING"

\* mutant: the test for PREPARING in remove_dependency inverted
EnqueuesDependent_Preparing(d, left) == left = 0 /\ state[d] = "PREPARING"

\* mutant: remove_dependency without the test for PREPARING
EnqueuesDependent_Zero(d, left) == left = 0

\* remove_dependency enqueues when the count has reached zero, unless the
\* handle is still PREPARING (postponed)
EnqueuesDependent(d, left) == left = 0 /\ state[d] # "PREPARING"

\* remove_dependency: --dependencies_left (std::size_t: below zero it is a
\* huge number, kept here as a negative one, which is likewise not 0)
RemoveDependency(x) ==
  /\ pc[x] = "remove_dependency"
  /\ LET d == dependents[run[x]][k[x]]
         left == dependencies_left[d] - 1 IN
       /\ dependencies_left' = Set(dependencies_left, d, left)
       /\ IF EnqueuesDependent(d, left)
          THEN /\ queue' = PoolSubmit(queue, d)
               /\ Goto(x, "enqueue_dependent")
               /\ UNCHANGED <<mutex, k>>
          ELSE /\ mutex' = Set(mutex, d, NoThread)
               /\ k' = Set(k, x, k[x] + 1)
               /\ Goto(x, "notify")
               /\ UNCHANGED queue
  /\ UNCHANGED <<prog, state, dependents, submit_task,
                 result, rmutex, active, run, ip, added, acc, cstat>>

\* finish after the loop: dependents.clear(); state = FINISHED; unlock
FinishEnd(x) ==
  /\ pc[x] = "notify" /\ k[x] > Len(dependents[run[x]])
  /\ dependents' = Set(dependents, run[x], <<>>)
  /\ state' = Set(state, run[x], "FINISHED")
  /\ mutex' = Set(mutex, run[x], NoThread)
  /\ Goto(x, AfterFinish)
  /\ run' = IF prog.grp THEN run ELSE Set(run, x, NoTask)
  /\ UNCHANGED <<prog, dependencies_left, submit_task,
                 result, rmutex, queue, active, ip, k, added, acc, cstat>>

\* the job of task_group::submit after finish(): lock_guard; --active
PostAction(x) ==
  /\ pc[x] = "decrement"
  /\ active' = active - 1
  /\ run' = Set(run, x, NoTask)
  /\ Goto(x, "idle")
  /\ UNCHANGED <<prog, handleVars, result, rmutex, queue, ip, k, added, acc, cstat>>

(* ---------------------- task_rec and task_group::join ------------------- *)
GetOps == {"get_value", "get", "join"}

\* the task_rec whose mutex and future the current call is at: the task
\* itself, or the nested_result of task_rec<task<T>>
GetTarget(x) == IF pc[x] \in {"code", "wait"} THEN Cur(x) ELSE result[Cur(x)].t

\* join, get, get_value: lock_guard on the task_rec
GetLock(x) ==
  /\ \/ AtCode(x) /\ CurOp(x).op \in GetOps /\ Visible(Cur(x))
     \/ pc[x] = "nested"
  /\ rmutex[GetTarget(x)] = NoThread
  /\ rmutex' = Set(rmutex, GetTarget(x), x)
  /\ Goto(x, IF pc[x] = "code" THEN "wait" ELSE "wait_nested")
  /\ UNCHANGED <<prog, handleVars, result, queue, active, run, ip, k, added,
                 acc, cstat>>

\* mutant: no specialisation for task_rec<task<T>>
GoesToNested_Never(name, r) == FALSE

\* task_rec<task<T>>: join and get_value go on to the nested task, get does not
GoesToNested(name, r) == r.kind = "task" /\ name \in {"get_value", "join"}

\* the value that a call delivers to the callable
Delivered(name, r) == IF name = "join" THEN 0 ELSE r.v

\* result.get() rethrows a stored exception, result.wait() does not; join
\* calls result.get() on the future of a task_rec<task<T>> only
Rethrows(name, at, r) == r.kind = "exc" /\ (name # "join" \/ at = "wait_nested")

\* all task_rec mutexes of thread x released
Unlocked(x) == [t \in Tasks |-> IF rmutex[t] = x THEN NoThread ELSE rmutex[t]]

\* result.wait() / result.get(): blocks until the future is ready; a stored
\* exception is rethrown and ends the calling callable
GetWait(x) ==
  /\ pc[x] \in {"wait", "wait_nested"}
  /\ result[GetTarget(x)].kind # "none"
  /\ LET r == result[GetTarget(x)] IN
     IF Rethrows(CurOp(x).op, pc[x], r)
     THEN /\ rmutex' = Unlocked(x)
          /\ IF x \in Workers
             THEN /\ result' = Set(result, run[x], Rethrown)
                  /\ cstat' = Set(cstat, run[x], "returned")
                  /\ Goto(x, AfterCallable(Rethrown))
                  /\ UNCHANGED ip
             ELSE /\ NextOp(x)
                  /\ UNCHANGED <<result, cstat>>
          /\ UNCHANGED acc
     ELSE IF pc[x] = "wait" /\ GoesToNested(CurOp(x).op, r)
     THEN /\ Goto(x, "nested")
          /\ UNCHANGED <<rmutex, result, cstat, ip, acc>>
     ELSE /\ rmutex' = Unlocked(x)
          /\ acc' = Set(acc, x, acc[x] + Delivered(CurOp(x).op, r))
          /\ NextOp(x)
          /\ UNCHANGED <<result, cstat>>
  /\ UNCHANGED <<prog, handleVars, queue, active, run, k, added>>

\* mutant: join returns while one task is still active
JoinReturns_OneLeft == ~(active > 1)

\* mutant: the loop test of join inverted
JoinReturns_Inverted == active > 0

\* task_group::join (and ~task_group): returns when active is not > 0
JoinReturns == ~(active > 0)

GroupJoin(x) ==
  /\ AtCode(x) /\ CurOp(x).op = "group_join"
  /\ JoinReturns
  /\ NextOp(x)
  /\ UNCHANGED <<prog, handleVars, result, rmutex, queue, active, run, k,
                 added, acc, cstat>>

(* ------------------------------ next ------------------------------------ *)
\* the steps of code that uses mt::submit
StepFree(x) ==
  \/ SubmitBegin(x) \/ AddDependencyLock(x) \/ AddDependent(x)
  \/ AddDependencyEnd(x) \/ SetSubmitTask(x)
  \/ FinishPreparationLock(x) \/ FinishPreparation(x) \/ EnqueueEnd(x)
  \/ PoolTake(x) \/ CallableReturn(x) \/ FinishLock(x) \/ FinishNotify(x)
  \/ RemoveDependency(x) \/ FinishEnd(x)
  \/ GetLock(x) \/ GetWait(x)

\* the further steps of code that uses a task_group
StepGroup(x) == GroupIncrement(x) \/ PostAction(x) \/ GroupJoin(x)

Next == \E x \in Threads : StepFree(x) \/ StepGroup(x)

NextFree == \E x \in Threads : StepFree(x)

\* the state after construction, for program p
InitOf(p) ==
  /\ prog = p
  /\ state = [t \in Tasks |-> "NONE"]
  /\ dependencies_left = [t \in Tasks |-> 0]
  /\ dependents = [t \in Tasks |-> <<>>]
  /\ submit_task = [t \in Tasks |-> FALSE]
  /\ mutex = [t \in Tasks |-> NoThread]
  /\ result = [t \in Tasks |-> NoResult]
  /\ rmutex = [t \in Tasks |-> NoThread]
  /\ queue = <<>>
  /\ active = 0
  /\ run = [x \in Threads |-> NoTask]
  /\ ip = [x \in Threads |-> 1]
  /\ pc = [x \in Threads |-> IF x \in Mains THEN "code" ELSE "idle"]
  /\ k = [x \in Threads |-> 0]
  /\ added = [x \in Threads |-> FALSE]
  /\ acc = [x \in Threads |-> 0]
  /\ cstat = [t \in Tasks |-> "notrun"]

(* ------------------------- generated programs --------------------------- *)
SeqsUpTo(S, n) == UNION {[1..m -> S] : m \in 0..n}

\* the prerequisite lists of tasks 1..n: each names earlier tasks only (a
\* task pointer exists only after its submit has returned), possibly twice
RECURSIVE DepLists(_)
DepLists(n) ==
  IF n = 0 THEN {<<>>}
  ELSE {Append(d, s) : d \in DepLists(n - 1), s \in SeqsUpTo(1..(n - 1), MaxDeps)}

\* a program over the graph d of n tasks, shaped as tests t1, t3 and t4: one
\* thread submits the tasks in order; the callables read the values of their
\* prerequisites if `reads` (t1) and otherwise use no task at all (t3, t4);
\* task `failing` throws; the last task is submitted by the second thread if
\* `two`; the tasks go through a task_group whose scope the first thread
\* leaves at the end if `grp` (t4), else that thread reads (t1) or joins
\* (t3) the last task
GraphProgram(n, d, failing, grp, two, reads) ==
  [deps |-> [t \in Tasks |-> IF t <= n THEN d[t] ELSE <<>>],
   body |-> [t \in Tasks |-> IF t <= n /\ reads
                             THEN [i \in 1..Len(d[t]) |-> Op("get_value", d[t][i])]
                             ELSE <<>>],
   ret  |-> [t \in Tasks |-> IF t = failing THEN RetThrow ELSE RetValue],
   main |-> [x \in Mains |->
              IF x = M1
              THEN [i \in 1..(IF two THEN n - 1 ELSE n) |-> Op("submit", i)]
                   \o <<IF grp THEN Op("group_join", NoTask)
                        ELSE IF reads THEN Op("get_value", n)
                        ELSE Op("join", n)>>
              ELSE IF x = M2 /\ two THEN <<Op("submit", n)>>
              ELSE <<>>],
   grp  |-> grp,
   nw   |-> PoolSize]

\* every graph within the bounds
GraphPrograms ==
  {GraphProgram(MaxTasks, d, f, g, w, TRUE) :
     d \in DepLists(MaxTasks), f \in {NoTask, 1}, g \in BOOLEAN, w \in BOOLEAN}

\* the graph of tests t1, t3, t4: a, b, c{a, b}, d, e{c, d}
Diamond == <<<<>>, <<>>, <<1, 2>>, <<>>, <<3, 4>>>>
T1Program == GraphProgram(5, Diamond, NoTask, FALSE, FALSE, TRUE)
T3Program == GraphProgram(5, Diamond, NoTask, FALSE, FALSE, FALSE)
T4Program == GraphProgram(5, Diamond, NoTask, TRUE, FALSE, FALSE)

\* two tasks with the same two prerequisites, listed in opposite orders and
\* submitted by two threads
CrossProgram == GraphProgram(4, <<<<>>, <<>>, <<2, 1>>, <<1, 2>>>>,
                             NoTask, FALSE, TRUE, TRUE)

\* a task with the same prerequisite listed twice
TwiceProgram == GraphProgram(2, <<<<>>, <<1, 1>>>>, NoTask, FALSE, FALSE, TRUE)

TestPrograms == {T1Program, T3Program, T4Program, CrossProgram, TwiceProgram}

Init == \E p \in GraphPrograms \cup TestPrograms : InitOf(p)

Spec == Init /\ [][Next]_vars

(* ---------------------- programs with nested tasks ---------------------- *)
Fun(pairs, default) ==
  [t \in Tasks |-> IF \E q \in pairs : q[1] = t
                   THEN (CHOOSE q \in pairs : q[1] = t)[2] ELSE default]

\* W's callable submits J and I{J} and returns I, as fibonacci() in t2 returns
\* the task of fib_impl; D has W as its prerequisite and calls `name` on it;
\* the submitting thread calls `name` on W and reads D
NestedProgram(name, grp) ==
  [deps |-> Fun({<<2, <<4>>>>, <<3, <<1>>>>}, <<>>),
   body |-> Fun({<<1, <<Op("submit", 4), Op("submit", 2)>>>>,
                 <<3, <<Op(name, 1)>>>>}, <<>>),
   ret  |-> Fun({<<1, RetTask(2)>>}, RetValue),
   main |-> [x \in Mains |->
              IF x = M1
              THEN <<Op("submit", 1), Op("submit", 3), Op(name, 1),
                     Op("get_value", 3)>>
                   \o (IF grp THEN <<Op("group_join", NoTask)>> ELSE <<>>)
              ELSE <<>>],
   grp  |-> grp,
   nw   |-> PoolSize]

NestedPrograms ==
  {NestedProgram(name, g) : name \in {"get_value", "join", "get"}, g \in BOOLEAN}

\* the recursive split of test t5, two levels deep: foo submits part1 = 1 and
\* part2 = 2 and the combiner 3{1, 2}, which reads both; the callable of 1 is
\* foo again: it submits 4, 5 and the combiner 6{4, 5} and returns 6; the
\* callables of 2, 4 and 5 are foo on a short range: each submits a leaf and
\* returns it
SplitProgram ==
  [deps |-> Fun({<<3, <<1, 2>>>>, <<6, <<4, 5>>>>}, <<>>),
   body |-> Fun({<<1, <<Op("submit", 4), Op("submit", 5), Op("submit", 6)>>>>,
                 <<2, <<Op("submit", 9)>>>>,
                 <<3, <<Op("get_value", 1), Op("get_value", 2)>>>>,
                 <<4, <<Op("submit", 7)>>>>,
                 <<5, <<Op("submit", 8)>>>>,
                 <<6, <<Op("get_value", 4), Op("get_value", 5)>>>>}, <<>>),
   ret  |-> Fun({<<1, RetTask(6)>>, <<2, RetTask(9)>>, <<4, RetTask(7)>>,
                 <<5, RetTask(8)>>}, RetValue),
   main |-> [x \in Mains |->
              IF x = M1
              THEN <<Op("submit", 1), Op("submit", 2), Op("submit", 3),
                     Op("get_value", 3)>>
              ELSE <<>>],
   grp  |-> FALSE,
   nw   |-> PoolSize]

InitNested == \E p \in NestedPrograms : InitOf(p)
SpecNested == InitNested /\ [][Next]_vars

\* scenario 6 of the specification's test list: a is submitted and joined,
\* then b{a} is submitted and read
FinishedProgram(grp) ==
  [deps |-> Fun({<<2, <<1>>>>}, <<>>),
   body |-> Fun({<<2, <<Op("get_value", 1)>>>>}, <<>>),
   ret  |-> Fun({}, RetValue),
   main |-> [x \in Mains |->
              IF x = M1
              THEN <<Op("submit", 1), Op("join", 1), Op("submit", 2),
                     Op("get_value", 2)>>
                   \o (IF grp THEN <<Op("group_join", NoTask)>> ELSE <<>>)
              ELSE <<>>],
   grp  |-> grp,
   nw   |-> PoolSize]

\* every thread that can take a step eventually takes one
Fairness == \A x \in Threads : WF_vars(StepFree(x) \/ StepGroup(x))

InitFinished == \E g \in BOOLEAN : InitOf(FinishedProgram(g))
SpecFinished == InitFinished /\ [][Next]_vars /\ Fairness

InitSplit == InitOf(SplitProgram)
SpecSplit == InitSplit /\ [][NextFree]_vars

\* t4 with an explicit tg.join() before the scope of the task_group ends:
\* a and b{a} go through the group, join is called, then ~task_group joins
JoinTwiceProgram ==
  [GraphProgram(2, <<<<>>, <<1>>>>, NoTask, TRUE, FALSE, TRUE)
     EXCEPT !.main[M1] = @ \o <<Op("group_join", NoTask)>>]

InitJoin == InitOf(JoinTwiceProgram)
SpecJoin == InitJoin /\ [][Next]_vars

\* recursive submission into a task_group, as fib_impl of t2 submits to its
\* pool: the callable of 1 submits 2, 3 and the combiner 4{2, 3}, which reads
\* both; the callable of 2 submits 5 in turn; one thread submits 1 and leaves
\* the scope of the group, a second thread joins the group concurrently
RecursiveProgram ==
  [deps |-> Fun({<<4, <<2, 3>>>>}, <<>>),
   body |-> Fun({<<1, <<Op("submit", 2), Op("submit", 3), Op("submit", 4)>>>>,
                 <<2, <<Op("submit", 5)>>>>,
                 <<4, <<Op("get_value", 2), Op("get_value", 3)>>>>}, <<>>),
   ret  |-> Fun({}, RetValue),
   main |-> [x \in Mains |->
              IF x = M1 THEN <<Op("submit", 1), Op("group_join", NoTask)>>
              ELSE IF x = M2 THEN <<Op("group_join", NoTask)>>
              ELSE <<>>],
   grp  |-> TRUE,
   nw   |-> PoolSize]

InitRecursive == InitOf(RecursiveProgram)
SpecRecursive == InitRecursive /\ [][Next]_vars

(* --------------------------- type invariant ----------------------------- *)
TypeOK ==
  /\ state \in [Tasks -> {"NONE", "PREPARING", "WAITING", "SUBMITTED", "FINISHED"}]
  /\ mutex \in [Tasks -> Threads \cup {NoThread}]
  /\ rmutex \in [Tasks -> Threads \cup {NoThread}]
  /\ \A i \in 1..Len(queue) : queue[i] \in Tasks
  /\ run \in [Threads -> Tasks \cup {NoTask}]

(* ------------------------------ claims ---------------------------------- *)
\* the position of thread x is inside finish() of the task it runs
InFinish(x) ==
  pc[x] \in {"notify", "remove_dependency", "enqueue_dependent"}

\* the job of h has been handed to the thread pool
Dispatched(h) ==
  \/ state[h] \in {"SUBMITTED", "FINISHED"}
  \/ \E i \in 1..Len(queue) : queue[i] = h
  \/ cstat[h] # "notrun"

\* C1: the user callable of a task does not start before the user callable of
\* every task in its prerequisite list has returned
C1_HappensBefore ==
  \A d \in Tasks : \A i \in 1..Len(Deps(d)) :
    cstat[d] # "notrun" => cstat[Deps(d)[i]] = "returned"

\* a task with two different prerequisites runs, released by the finish()
\* of a prerequisite, while a submitting thread is still at work
C1_Witness ==
  \E d \in Tasks, x \in Mains :
    /\ Len(Deps(d)) = 2 /\ Deps(d)[1] # Deps(d)[2]
    /\ cstat[d] = "running"
    /\ pc[x] # "code"

\* C2: a task that lists a nested task w (one whose callable returns a task)
\* as prerequisite is not dispatched before the task that w's callable
\* returned has finished
C2_InnerBeforeDependent ==
  \A d \in Tasks : \A i \in 1..Len(Deps(d)) :
    LET w == Deps(d)[i] IN
      (prog.ret[w].kind = "task" /\ Dispatched(d))
        => /\ result[w].kind # "none"
           /\ result[w].kind = "task" => state[result[w].t] = "FINISHED"

\* the ++active of task_group::submit for task t has been executed
Registered(t) ==
  /\ prog.grp /\ state[t] # "NONE"
  /\ ~ \E x \in Threads :
         /\ pc[x] \in {"add_dependency", "add_dependent", "add_dependency_end",
                       "increment"}
         /\ Cur(x) = t

\* every task of the group has left its job: callable, finish(), --active
AllGroupTasksDone ==
  /\ active = 0
  /\ \A t \in Tasks :
       Registered(t) => /\ state[t] = "FINISHED"
                        /\ cstat[t] = "returned"
                        /\ \A x \in Workers : run[x] # t

\* C3: task_group::join (and with it ~task_group) returns only in a state
\* where every task submitted through the group has returned from its
\* callable and completed finish(), with active = 0
C3_JoinWaitsForAll ==
  [][(\E x \in Threads : GroupJoin(x)) => AllGroupTasksDone]_vars

\* the scope of the task_group of a program with dependent tasks has been left
C3_Witness ==
  /\ prog.grp
  /\ pc[M1] = "code" /\ ip[M1] > Len(prog.main[M1])
  /\ \E t \in Tasks : Deps(t) # <<>> /\ state[t] = "FINISHED"

\* the result of t's callable is in the shared state of t's future whenever
\* t is FINISHED or its finish() is under way
PublishedBeforeFinish ==
  \A t \in Tasks :
    (state[t] = "FINISHED" \/ \E x \in Workers : run[x] = t /\ InFinish(x))
      => result[t].kind # "none"

\* a callable that calls get, get_value or join on a task of its own
\* prerequisite list finds every future it waits for ready
ListedReadNeverBlocks ==
  \A x \in Workers :
    (/\ pc[x] \in {"wait", "wait_nested"}
     /\ \E i \in 1..Len(Deps(run[x])) : Deps(run[x])[i] = Cur(x))
      => result[GetTarget(x)].kind # "none"

\* C4: the result of a task is published before its handle is FINISHED and
\* before any dependent receives remove_dependency; hence a callable that
\* calls get or get_value on a listed prerequisite never blocks
C4_PublishedAndNeverBlocks == PublishedBeforeFinish /\ ListedReadNeverBlocks

\* add_dependent has just been called for the last prerequisite of b, which
\* was FINISHED already, and no earlier prerequisite of b is unresolved
Refused(b) ==
  /\ dependencies_left[b] = 0
  /\ \E x \in Threads : /\ pc[x] = "add_dependency_end"
                        /\ Cur(x) = b /\ k[x] = Len(Deps(b))
                        /\ state[get_handle(Deps(b)[k[x]])] = "FINISHED"

\* C5: a task submitted with a prerequisite that is already FINISHED, and
\* with no other unresolved prerequisite, is never left WAITING (its own
\* finish_preparation dispatches it) and eventually finishes
C5_FinishedPrerequisite ==
  \A b \in Tasks :
    /\ [](Refused(b) => [](state[b] # "WAITING"))
    /\ Refused(b) ~> (state[b] = "FINISHED")

\* the registration of task 2 with the finished task 1 is being refused
C5_Witness == Refused(2) /\ state[1] = "FINISHED"

\* the handle mutex that thread x is about to lock
Wanted(x) ==
  CASE pc[x] \in {"add_dependency", "set_submit_task", "finish_preparation"}
         -> Cur(x)
    [] pc[x] = "add_dependent" -> get_handle(Deps(Cur(x))[k[x]])
    [] pc[x] = "finish" -> run[x]
    [] pc[x] = "notify" /\ k[x] <= Len(dependents[run[x]])
         -> dependents[run[x]][k[x]]
    [] OTHER -> NoTask

\* a set of threads each of which waits for a handle mutex that another
\* thread of the set holds
MutexDeadlock(S) ==
  \A x \in S : Wanted(x) # NoTask /\ mutex[Wanted(x)] \in S \ {x}

\* C6: with submissions from several threads and an acyclic graph no
\* reachable state is a deadlock on the handle mutexes
C6_NoMutexDeadlock ==
  prog.main[M2] # <<>> =>
    ~ \E S \in SUBSET Threads : S # {} /\ MutexDeadlock(S)

\* C7: when a callable fails, the exception is stored in the future, and the
\* handle is finished and the dependents are notified as for any callable:
\* finish() follows the callable, and no task is left WAITING once all its
\* prerequisites are FINISHED
C7_FailureFinishes ==
  /\ \A t \in Tasks :
       (result[t].kind = "exc" \/ cstat[t] = "returned")
         => /\ cstat[t] = "returned" /\ result[t].kind # "none"
            /\ \/ state[t] = "FINISHED"
               \/ \E x \in Workers :
                    run[x] = t /\ (pc[x] = "finish" \/ InFinish(x))
  /\ \A d \in Tasks :
       state[d] = "WAITING"
         => \E i \in 1..Len(Deps(d)) : state[Deps(d)[i]] # "FINISHED"
  /\ \A t \in Tasks : state[t] = "FINISHED" => dependents[t] = <<>>

\* the dependent of a task whose callable threw runs, after that task has
\* become FINISHED
C7_Witness ==
  \E d \in Tasks :
    /\ Deps(d) # <<>> /\ cstat[d] = "running"
    /\ result[Deps(d)[1]].kind = "exc" /\ state[Deps(d)[1]] = "FINISHED"
    /\ prog.ret[Deps(d)[1]].kind = "throw"

\* worker x is blocked in get_value or join
Blocked(x) ==
  pc[x] \in {"wait", "wait_nested"} /\ result[GetTarget(x)].kind = "none"

\* C8: in the recursive split of test t5 on a pool of 2 workers no state is
\* reachable where all workers are blocked in get_value while the tasks they
\* wait for are not finished
C8_WorkersNeverAllBlocked == ~ \A x \in Workers : Blocked(x)

\* a thread is inside the submit call for task t
InSubmit(t) ==
  \E x \in Threads :
    /\ pc[x] \in {"add_dependency", "add_dependent", "add_dependency_end",
                  "increment", "set_submit_task", "finish_preparation",
                  "finish_preparation_body", "enqueue"}
    /\ Cur(x) = t

\* C9: when the submit of a task with an empty prerequisite list has
\* returned, its handle is SUBMITTED or FINISHED and never WAITING
C9_EmptyListDispatched ==
  \A t \in Tasks :
    (Deps(t) = <<>> /\ state[t] # "NONE" /\ ~InSubmit(t))
      => state[t] \in {"SUBMITTED", "FINISHED"}

\* the submit of a task without prerequisites has returned and the job is
\* still queued
C9_Witness ==
  \E t \in Tasks :
    /\ Deps(t) = <<>> /\ state[t] = "SUBMITTED" /\ ~InSubmit(t)
    /\ \E i \in 1..Len(queue) : queue[i] = t

\* thread x returns from get_value or join on a task_rec<task<T>>
NestedReturn(x) ==
  /\ pc[x] \in {"wait", "wait_nested"} /\ pc'[x] = "code"
  /\ prog.ret[Cur(x)].kind = "task"
  /\ CurOp(x).op \in {"get_value", "join"}

\* C10: get_value on a nested task returns only after the future of the
\* outer task and the future of the task it holds are ready, and it returns
\* the value of that inner task; join returns only after both are ready
C10_NestedGetValue ==
  [][\A x \in Threads :
       NestedReturn(x) =>
         /\ result[Cur(x)].kind = "task"
         /\ result[result[Cur(x)].t].kind = "value"
         /\ CurOp(x).op = "get_value"
              => acc'[x] = acc[x] + result[result[Cur(x)].t].v]_vars

\* the submitting thread has got the value of the inner task 2 from
\* get_value on the nested task 1
C10_Witness ==
  /\ prog.main[M1][3] = Op("get_value", 1)
  /\ ip[M1] = 4 /\ pc[M1] = "code"
  /\ result[1].kind = "task" /\ acc[M1] = result[result[1].t].v
  /\ acc[M1] > 0

\* thread x has returned from a task_group::join
Joined(x) ==
  x \in Mains /\ \E i \in 1..(ip[x] - 1) : prog.main[x][i].op = "group_join"

\* no submit is ahead of any thread and no submit call is under way
NoFurtherSubmission ==
  /\ \A y \in Mains : \A i \in ip[y]..Len(prog.main[y]) :
       prog.main[y][i].op # "submit"
  /\ \A t \in Tasks : \A i \in 1..Len(Body(t)) :
       Body(t)[i].op = "submit" => cstat[t] = "returned"
  /\ \A t \in Tasks : ~InSubmit(t)

\* C11: task_group::join is idempotent: once a join has returned and nothing
\* more is submitted to the group, active is zero and stays zero, so every
\* further join (the one of ~task_group too) finds its loop test false and
\* returns without blocking
C11_JoinIdempotent ==
  \A x \in Mains :
    (Joined(x) /\ NoFurtherSubmission) => active = 0 /\ JoinReturns

\* the explicit join and the join of the destructor have both returned
C11_Witness ==
  /\ prog.main[M1][3].op = "group_join" /\ prog.main[M1][4].op = "group_join"
  /\ ip[M1] = 5 /\ pc[M1] = "code"
  /\ state[2] = "FINISHED"

\* this step invokes submit_task() of h: its job is handed to the pool
Dispatches(h) ==
  Len(queue') > Len(queue) /\ queue'[Len(queue')] = h

\* thread x is inside enqueue() for h, between submit_task() and the
\* assignment of SUBMITTED
InEnqueue(x, h) ==
  pc[x] \in {"enqueue", "enqueue_dependent"} /\ EnqueueHandle(x) = h

\* a handle whose preparation has finished and whose count is zero has
\* been dispatched
ZeroMeansDispatched ==
  \A h \in Tasks :
    (state[h] # "NONE" /\ ~InSubmit(h) /\ dependencies_left[h] = 0)
      => Dispatched(h)

\* a dispatched handle is SUBMITTED or FINISHED, except inside the enqueue()
\* that dispatched it
SubmittedAtDispatch ==
  \A h \in Tasks :
    (Dispatched(h) /\ state[h] \notin {"SUBMITTED", "FINISHED"})
      => \E x \in Threads : InEnqueue(x, h) /\ mutex[h] = x

\* C12: submit_task is set once, while the handle is PREPARING, and invoked
\* exactly once, at the transition into SUBMITTED: a step that dispatches h
\* finds h never dispatched before, SUBMITTED is entered only by the
\* enqueue() that dispatched, and no handle whose preparation has finished
\* stays undispatched with a count of zero
C12_DispatchedOnce ==
  /\ []ZeroMeansDispatched
  /\ []SubmittedAtDispatch
  /\ [][\A h \in Tasks :
         /\ (submit_task'[h] /\ ~submit_task[h])
              => state[h] = "PREPARING" /\ state'[h] = "PREPARING"
                 /\ ~Dispatched(h)
         /\ Dispatches(h)
              => ~Dispatched(h) /\ submit_task[h]
                 /\ state[h] \in {"PREPARING", "WAITING"}
         /\ (state'[h] = "SUBMITTED" /\ state[h] # "SUBMITTED")
              => /\ \E x \in Threads : InEnqueue(x, h)
                 /\ ~submit_task'[h]]_vars

\* remove_dependency has dispatched a waiting handle and is about to make
\* it SUBMITTED, while a handle dispatched by finish_preparation is FINISHED
C12_Witness ==
  \E h \in Tasks, x \in Workers :
    /\ pc[x] = "enqueue_dependent" /\ InEnqueue(x, h)
    /\ state[h] = "WAITING" /\ dependencies_left[h] = 0
    /\ \E g \in Tasks : Deps(g) = <<>> /\ state[g] = "FINISHED"

\* the changes of task_handle_rec::state: construction, and the edges of
\* PREPARING -> WAITING -> SUBMITTED -> FINISHED with WAITING optional
Forward ==
  {<<"NONE", "PREPARING">>, <<"PREPARING", "WAITING">>,
   <<"PREPARING", "SUBMITTED">>, <<"WAITING", "SUBMITTED">>,
   <<"SUBMITTED", "FINISHED">>}

\* C13: the state of a handle only moves forward: WAITING is entered only
\* from PREPARING, SUBMITTED only from PREPARING or WAITING, FINISHED only
\* from SUBMITTED, and no step returns to an earlier state
C13_Monotonic ==
  [][\A h \in Tasks :
       state'[h] # state[h] => <<state[h], state'[h]>> \in Forward]_vars

\* a handle that waited for its prerequisites is FINISHED, and a dependent of
\* it is WAITING for another prerequisite
C13_Witness ==
  \E b \in Tasks :
    /\ state[b] = "WAITING"
    /\ \E i \in 1..Len(Deps(b)) :
         state[Deps(b)[i]] = "FINISHED" /\ Deps(Deps(b)[i]) # <<>>

\* C14: submit_task(), and with it the submit of the thread pool, is invoked
\* with the mutex of the handle released, in finish_preparation as well as
\* in remove_dependency: the thread that dispatches h does not hold h's mutex
C14_DispatchOutsideLock ==
  [][\A h \in Tasks, x \in Threads :
       (Dispatches(h) /\ pc'[x] # pc[x]) => mutex[h] # x]_vars

\* the handle mutexes that thread x holds
Held(x) == {h \in Tasks : mutex[h] = x}

\* C15: handle mutexes never nest: no thread holds the mutex of one handle
\* while it acquires or holds the mutex of another handle; finish() on A
\* calls remove_dependency on B only with the mutex of A released
C15_NoNestedMutexes ==
  \A x \in Threads :
    /\ Cardinality(Held(x)) <= 1
    /\ Held(x) # {} => Wanted(x) = NoTask
    /\ pc[x] \in {"remove_dependency", "enqueue_dependent"}
         => mutex[run[x]] # x

\* the submit call for h has left its loop of add_dependency calls and has
\* not yet left finish_preparation
PastLoop(h) ==
  \E x \in Threads :
    /\ pc[x] \in {"increment", "set_submit_task", "finish_preparation",
                  "finish_preparation_body"}
    /\ Cur(x) = h

\* this step is a remove_dependency that brings the count of h to zero
\* while h is PREPARING
Postpones(h) ==
  /\ state[h] = "PREPARING"
  /\ dependencies_left[h] # 0 /\ dependencies_left'[h] = 0

\* this step is the test of finish_preparation for h
FinishPreparationStep(h) ==
  \E x \in Threads :
    pc[x] = "finish_preparation_body" /\ Cur(x) = h /\ pc'[x] # pc[x]

C17_FinishFindsSubmitted ==
  \A x \in Threads : InFinish(x) => state[run[x]] = "SUBMITTED"

\* a worker has run the callable of h and is about to call finish(), while
\* the thread that dispatched h is still inside enqueue() and h is not yet
\* SUBMITTED
C17_Witness ==
  \E h \in Tasks, x \in Workers, y \in Threads :
    /\ pc[x] = "finish" /\ run[x] = h
    /\ InEnqueue(y, h) /\ state[h] # "SUBMITTED"

\* the job of group task t has not yet run its post-action (--active)
PostActionAhead(t) ==
  Registered(t) /\ ~(state[t] = "FINISHED" /\ \A x \in Workers : run[x] # t)

\* active counts the registered tasks whose post-action is still ahead
ActiveCounts ==
  /\ active >= 0
  /\ active = Cardinality({t \in Tasks : PostActionAhead(t)})

\* C18: in task_group::submit ++active precedes every dispatch of the task,
\* and --active comes only after the callable has returned and finish()
\* has notified the dependents; so active never goes below zero and always
\* equals the number of group tasks whose post-action has not yet run
C18_ActiveCounter ==
  /\ []ActiveCounts
  /\ [][/\ \A h \in Tasks : (prog.grp /\ Dispatches(h)) => Registered(h)
        /\ active' > active
             => \E x \in Threads :
                  pc[x] = "increment" /\ pc'[x] = "set_submit_task"
                  /\ ~Dispatched(Cur(x))
        /\ active' < active
             => \E x \in Workers :
                  /\ pc[x] = "decrement" /\ pc'[x] = "idle"
                  /\ cstat[run[x]] = "returned"
                  /\ state[run[x]] = "FINISHED"
                  /\ dependents[run[x]] = <<>>
                  /\ active' = active - 1]_vars

\* a group task has finished and its job is about to decrement active,
\* while its dependent, released by it, is counted and running
C18_Witness ==
  \E x \in Workers, d \in Tasks :
    /\ pc[x] = "decrement" /\ Deps(d) = <<run[x]>>
    /\ cstat[d] = "running" /\ active = 2

\* thread x is inside add_dependency, at or after the call of add_dependent
InAddDependency(x) == pc[x] \in {"add_dependent", "add_dependency_end"}

\* C19: add_dependency(p) on h with p FINISHED returns false and leaves the
\* count of h, the state of h and the dependents of p as they were;
\* otherwise it appends h to the dependents of p and adds exactly one to the
\* count of h
C19_AddDependency ==
  [][\A x \in Threads :
       InAddDependency(x) =>
         LET h == Cur(x)
             p == get_handle(Deps(h)[k[x]])
             finished == state[p] = "FINISHED"
         IN /\ state'[h] = state[h]
            /\ (pc[x] = "add_dependent" /\ pc'[x] # pc[x])
                 => /\ added'[x] = ~finished
                    /\ dependencies_left' = dependencies_left
                    /\ dependents' = IF finished THEN dependents
                                     ELSE Set(dependents, p,
                                              Append(dependents[p], h))
            /\ (pc[x] = "add_dependency_end" /\ pc'[x] # pc[x])
                 => /\ added[x] = ~finished
                    /\ dependents' = dependents
                    /\ dependencies_left' =
                         Set(dependencies_left, h,
                             IF finished THEN dependencies_left[h]
                             ELSE dependencies_left[h] + 1)
            /\ pc'[x] = pc[x]
                 => /\ dependencies_left'[h] = dependencies_left[h]
                    /\ finished => dependents'[p] = dependents[p]]_vars

\* add_dependency has returned false for a finished prerequisite of a
\* handle that has registered with another prerequisite before
C19_Witness ==
  \E x \in Threads :
    /\ pc[x] \in {"increment", "set_submit_task"} /\ k[x] = 3
    /\ state[get_handle(Deps(Cur(x))[2])] = "FINISHED"
    /\ dependencies_left[Cur(x)] = 1
    /\ dependents[get_handle(Deps(Cur(x))[1])] = <<Cur(x)>>

\* no thread is inside a critical section of a handle
Quiescent == \A t \in Tasks : mutex[t] = NoThread

\* the entries of the dependents lists of all handles: handle and position
Entries == UNION {{<<p, i>> : i \in 1..Len(dependents[p])} : p \in Tasks}

\* the number of occurrences of h in the dependents lists of all handles
Occurrences(h) ==
  Cardinality({e \in Entries : dependents[e[1]][e[2]] = h})

\* C20: whenever no thread is inside a critical section of a handle, the
\* count of every handle equals the number of its occurrences in the
\* dependents lists of all handles (a prerequisite listed twice counts
\* twice); the count never underflows; outside its critical sections a
\* WAITING handle has a count above zero and a SUBMITTED or FINISHED handle
\* a count of zero; a FINISHED handle has no dependents
C20_EdgeCount ==
  \A h \in Tasks :
    /\ Quiescent => dependencies_left[h] = Occurrences(h)
    /\ dependencies_left[h] >= 0
    /\ (mutex[h] = NoThread /\ state[h] = "WAITING") => dependencies_left[h] > 0
    /\ (mutex[h] = NoThread /\ state[h] \in {"SUBMITTED", "FINISHED"})
         => dependencies_left[h] = 0
    /\ state[h] = "FINISHED" => dependents[h] = <<>>

\* no thread is in a critical section, and a handle that lists the same
\* prerequisite twice waits with a count of two
C20_Witness ==
  /\ Quiescent
  /\ \E h, p \in Tasks :
       /\ dependents[p] = <<h, h>> /\ dependencies_left[h] = 2
       /\ state[h] = "WAITING"

\* the tasks that the callable of p submits
Children(p) ==
  {c \in Tasks : \E i \in 1..Len(Body(p)) : Body(p)[i] = Op("submit", c)}

\* the tasks submitted by the callable of p, by the callables of those
\* tasks, and so on, n levels deep
RECURSIVE Descendants(_, _)
Descendants(p, n) ==
  IF n = 0 THEN {}
  ELSE Children(p) \cup UNION {Descendants(c, n - 1) : c \in Children(p)}

\* the job of t has run to its end: callable, finish() and post-action
JobDone(t) ==
  /\ state[t] = "FINISHED" /\ cstat[t] = "returned"
  /\ \A x \in Workers : run[x] # t

\* p is a registered task of the group whose callable submits to the group,
\* and p or one of the tasks that descend from it has not run to its end
FamilyAtWork(p) ==
  /\ Children(p) # {} /\ Registered(p)
  /\ \E t \in {p} \cup Descendants(p, MaxId) : ~JobDone(t)

\* C21: when a task of a task group submits tasks to the same group from
\* inside its callable, active does not reach zero between the completion of
\* the parent and the registration of the children, so no join (nor the
\* destructor) returns before those children have finished
C21_RecursiveSubmission ==
  /\ [](\A p \in Tasks : FamilyAtWork(p) => active > 0)
  /\ [][(\E x \in Threads : GroupJoin(x))
          => \A p \in Tasks : ~FamilyAtWork(p)]_vars

\* the job of the parent has run to its end, a child that it submitted has
\* not, and the submitting thread waits in join
C21_Witness ==
  /\ JobDone(1) /\ FamilyAtWork(1) /\ active > 0
  /\ AtCode(M1) /\ CurOp(M1).op = "group_join"

====
